---------------------------- MODULE Spec2Model ----------------------------
(***************************************************************************)
(* Model of _validate_xref.py: a sequential script that cross-checks the   *)
(* agent names referenced by a root document (CLAUDE.md) and by the stage  *)
(* command files against the agent definition files that exist, counts the *)
(* template placeholders of the project-template files, and prints a       *)
(* report ending in a one-line verdict.                                    *)
(*                                                                         *)
(* Text is modelled as a sequence of one-character strings.  The file      *)
(* system is part of the state (it does not change during a run); every   *)
(* I/O call of the script either succeeds or raises, and a directory       *)
(* listing returns its names in an arbitrary order.                        *)
(***************************************************************************)
EXTENDS Naturals, Sequences, FiniteSets, TLC

(***************************************************************************)
(* Bounds of the explored inputs.                                          *)
(***************************************************************************)
\* total number of files over the agents, commands and template directories
MaxFiles == 2
\* total number of text tokens over the root document and all file contents
MaxTokens == 2
\* the same two bounds for the termination property
LiveMaxFiles == 2
LiveMaxTokens == 1

(***************************************************************************)
(* Characters.  CharOrder lists the characters the model uses in ascending *)
(* code-point order; Ord is the position in it, so comparing Ord compares  *)
(* code points, which is how Python compares the characters of a str.      *)
(***************************************************************************)
CharOrder ==
    << " ", "-", ".", "0", "1", "7", "8", "A", "B", "_", "a", "b", "c", "d",
       "e", "f", "g", "m", "n", "o", "r", "s", "t", "w", "x", "{", "}" >>

Ord(c) == CHOOSE k \in 1..Len(CharOrder) : CharOrder[k] = c

\* \w of the re module on the model's characters: letters, digits, underscore
IsWord(c) ==
    c \in { "0", "1", "7", "8", "A", "B", "_", "a", "b", "c", "d", "e", "f",
            "g", "m", "n", "o", "r", "s", "t", "w", "x" }

\* [\w-]
IsWordOrDash(c) == IsWord(c) \/ c = "-"

\* [A-Z_]
IsUpperOrUnderscore(c) == c \in { "A", "B", "_" }

(***************************************************************************)
(* str operations.                                                         *)
(***************************************************************************)
\* s < t for two str values: lexicographic by code point
LexLess(s, t) ==
    \E k \in 1..(Len(s) + 1) :
        /\ k <= Len(t)
        /\ \A j \in 1..(k - 1) : s[j] = t[j]
        /\ \/ k = Len(s) + 1
           \/ Ord(s[k]) < Ord(t[k])

\* the text occurs in s at position p
OccursAt(s, p, lit) ==
    /\ p >= 1
    /\ p + Len(lit) - 1 <= Len(s)
    /\ SubSeq(s, p, p + Len(lit) - 1) = lit

\* s.startswith(prefix)
StartsWith(s, prefix) == OccursAt(s, 1, prefix)

\* s.endswith(suffix)
EndsWith(s, suffix) == OccursAt(s, Len(s) - Len(suffix) + 1, suffix)

RECURSIVE ReplaceFrom(_, _, _)
\* s[p:].replace(old, ''): every non-overlapping occurrence, left to right
ReplaceFrom(s, p, old) ==
    IF p > Len(s) THEN << >>
    ELSE IF OccursAt(s, p, old) THEN ReplaceFrom(s, p + Len(old), old)
    ELSE << s[p] >> \o ReplaceFrom(s, p + 1, old)

\* s.replace(old, '')
Remove(s, old) == ReplaceFrom(s, 1, old)

RECURSIVE SortedSeq_m(_)
\* SortedSeq with the order reversed: sorted(S, reverse=True)
SortedSeq_m(S) ==
    IF S = {} THEN << >>
    ELSE LET m == CHOOSE m \in S : \A o \in S \ {m} : LexLess(o, m)
         IN  << m >> \o SortedSeq_m(S \ {m})

RECURSIVE SortedSeq(_)
\* sorted(S) for a set of str
SortedSeq(S) ==
    IF S = {} THEN << >>
    ELSE LET m == CHOOSE m \in S : \A o \in S \ {m} : LexLess(m, o)
         IN  << m >> \o SortedSeq(S \ {m})

\* set(seq)
Range(seq) == { seq[k] : k \in 1..Len(seq) }

\* [x for x in seq if x in S], order kept
RECURSIVE FilterSeq(_, _)
FilterSeq(seq, S) ==
    IF seq = << >> THEN << >>
    ELSE IF Head(seq) \in S THEN << Head(seq) >> \o FilterSeq(Tail(seq), S)
    ELSE FilterSeq(Tail(seq), S)

(***************************************************************************)
(* Literals of the script.                                                 *)
(***************************************************************************)
DotMd == << ".", "m", "d" >>
DotForge == << ".", "f", "o", "r", "g", "e" >>
DashAgent == << "-", "a", "g", "e", "n", "t" >>
StagePrefix(n) ==
    << "s", "t", "a", "g", "e", "-", "0" >> \o
    << CASE n = 1 -> "1" [] n = 2 -> "2" [] n = 3 -> "3" [] n = 4 -> "4"
         [] n = 5 -> "5" [] n = 6 -> "6" [] n = 7 -> "7" [] OTHER -> "8" >>
\* range(1, 8)
FirstStage == 1
LastStage == 7

(***************************************************************************)
(* agent_pattern = (\w[\w-]*-agent), as re.findall applies it.             *)
(***************************************************************************)
\* last index of the run of [\w-] characters that follows position p
RECURSIVE RunEnd(_, _)
RunEnd(text, p) ==
    IF p + 1 <= Len(text) /\ IsWordOrDash(text[p + 1]) THEN RunEnd(text, p + 1)
    ELSE p

\* the end of the match that starts at p, 0 when there is none: \w at p, then
\* the greedy [\w-]* backs off from the whole run to the longest prefix that
\* the literal -agent follows
AgentMatchEnd(text, p) ==
    IF ~ IsWord(text[p]) THEN 0
    ELSE LET ends == { k \in p..RunEnd(text, p) : OccursAt(text, k + 1, DashAgent) }
         IN  IF ends = {} THEN 0
             ELSE (CHOOSE k \in ends : \A o \in ends : o <= k) + Len(DashAgent)

RECURSIVE AgentFindAll(_, _)
\* agent_pattern.findall(text) from position p on: the matches in text order,
\* each search resuming after the previous match
AgentFindAll(text, p) ==
    IF p > Len(text) THEN << >>
    ELSE LET e == AgentMatchEnd(text, p)
         IN  IF e = 0 THEN AgentFindAll(text, p + 1)
             ELSE << SubSeq(text, p, e) >> \o AgentFindAll(text, e + 1)

\* set(agent_pattern.findall(text))
AgentRefs(text) == Range(AgentFindAll(text, 1))

(***************************************************************************)
(* re.findall(r'\{\{[A-Z_]+\}\}', content)                                 *)
(***************************************************************************)
RECURSIVE UpperRunEnd(_, _)
\* last index of the run of [A-Z_] characters that starts at p (p - 1: none)
UpperRunEnd(text, p) ==
    IF p <= Len(text) /\ IsUpperOrUnderscore(text[p]) THEN UpperRunEnd(text, p + 1)
    ELSE p - 1

\* the end of the placeholder match that starts at p, 0 when there is none
VarMatchEnd(text, p) ==
    IF ~ OccursAt(text, p, << "{", "{" >>) THEN 0
    ELSE LET e == UpperRunEnd(text, p + 2)
         IN  IF e >= p + 2 /\ OccursAt(text, e + 1, << "}", "}" >>)
             THEN e + 2 ELSE 0

RECURSIVE VarsFound(_, _)
\* the matches from position p on, in text order
VarsFound(text, p) ==
    IF p > Len(text) THEN << >>
    ELSE LET e == VarMatchEnd(text, p)
         IN  IF e = 0 THEN VarsFound(text, p + 1)
             ELSE << SubSeq(text, p, e) >> \o VarsFound(text, e + 1)

(***************************************************************************)
(* Explored inputs: file names and text tokens.                            *)
(***************************************************************************)
\* candidate names of the agents directory:
\* w-agent.md, w.md-agent.md, x-agent.txt
AgentFileNames ==
    { << "w", "-", "a", "g", "e", "n", "t", ".", "m", "d" >>,
      << "w", ".", "m", "d", "-", "a", "g", "e", "n", "t", ".", "m", "d" >>,
      << "x", "-", "a", "g", "e", "n", "t", ".", "t", "x", "t" >> }

\* candidate names of the commands directory:
\* stage-01a, stage-01b, stage-07, stage-08
CmdFileNames ==
    { << "s", "t", "a", "g", "e", "-", "0", "1", "a" >>,
      << "s", "t", "a", "g", "e", "-", "0", "1", "b" >>,
      << "s", "t", "a", "g", "e", "-", "0", "7" >>,
      << "s", "t", "a", "g", "e", "-", "0", "8" >> }

\* candidate names of the template directory: a.forge, b.forge, c.txt
TmplFileNames ==
    { << "a", ".", "f", "o", "r", "g", "e" >>,
      << "b", ".", "f", "o", "r", "g", "e" >>,
      << "c", ".", "t", "x", "t" >> }

\* tokens of the root document and of the command files:
\* "x-agent", " w-agent", "s"
AgentTokens ==
    { << "x", "-", "a", "g", "e", "n", "t" >>,
      << " ", "w", "-", "a", "g", "e", "n", "t" >>,
      << "s" >> }

\* tokens of the template files: "{{A_B}}", "{{a}}", "{"
TmplTokens ==
    { << "{", "{", "A", "_", "B", "}", "}" >>,
      << "{", "{", "a", "}", "}" >>,
      << "{" >> }

\* the token sequences of at most n tokens
TokSeqs(Tokens, n) == UNION { [1..k -> Tokens] : k \in 0..n }

RECURSIVE Flatten(_)
\* the text a token sequence spells
Flatten(ts) == IF ts = << >> THEN << >> ELSE Head(ts) \o Flatten(Tail(ts))

RECURSIVE Assignments(_, _, _)
\* the ways to give each file of S a token sequence, at most n tokens in all
Assignments(S, Tokens, n) ==
    IF S = {} THEN { << >> }
    ELSE LET f == CHOOSE f \in S : TRUE
         IN  UNION { { (f :> ts) @@ g :
                         g \in Assignments(S \ {f}, Tokens, n - Len(ts)) } :
                     ts \in TokSeqs(Tokens, n) }

RECURSIVE TotalTokens(_)
TotalTokens(a) ==
    IF DOMAIN a = {} THEN 0
    ELSE LET f == CHOOSE f \in DOMAIN a : TRUE
         IN  Len(a[f]) + TotalTokens([g \in DOMAIN a \ {f} |-> a[g]])

\* the orders in which a listing may return the names of S
Listings(S) ==
    { o \in [1..Cardinality(S) -> S] : Range(o) = S }

(***************************************************************************)
(* State.                                                                  *)
(***************************************************************************)
VARIABLES
    rootDoc,          \* the file system: content of .claude/CLAUDE.md
    agentsDir,        \* the file names of .claude/agents
    cmdsDir,          \* .claude/commands: file name -> content
    tmplDir,          \* project-template: file name -> content
    pc,               \* the script's position
    claude_md,        \* the script's variables, named as in the source
    existing_agents,
    agent_refs,
    all_pass,
    i,
    stage_files,      \* the rest of stage_files the inner loop has to visit
    tmpl_files,       \* the rest of sorted(os.listdir(template_dir))
    out,              \* standard output: the lines printed so far
    scans,            \* the stage files opened so far, each with its stage index
    error             \* the input whose access raised, "" while none has

fs == << rootDoc, agentsDir, cmdsDir, tmplDir >>

vars == << rootDoc, agentsDir, cmdsDir, tmplDir, pc, claude_md,
           existing_agents, agent_refs, all_pass, i, stage_files, tmpl_files,
           out, scans, error >>

(***************************************************************************)
(* Report lines.                                                           *)
(***************************************************************************)
Line(kind, tag, file, value, count) ==
    [kind |-> kind, tag |-> tag, file |-> file, value |-> value, count |-> count]

\* print('=== ... ===')
HeaderLine(section) == Line("header", section, << >>, << >>, 0)

\* print()
BlankLine == Line("blank", "", << >>, << >>, 0)

\* print(f'  {"PASS" if exists else "FAIL"}: {ref}')
RefLine(exists, ref) ==
    Line("ref", IF exists THEN "PASS" ELSE "FAIL", << >>, ref, 0)

\* print(f'  {"PASS" if exists else "FAIL"}: {sf} -> {am}')
StageLine(exists, sf, am) ==
    Line("stage", IF exists THEN "PASS" ELSE "FAIL", sf, am, 0)

\* TmplLine with the threshold off by one: has_vars = len(vars_found) > 1
TmplLine_m(tf, n) ==
    Line("tmpl", IF n > 1 THEN "PASS" ELSE "WARN", tf, << >>, n)

\* print(f'  {"PASS" if has_vars else "WARN"}: {tf} has {len(vars_found)} template variables')
TmplLine(tf, n) ==
    Line("tmpl", IF n > 0 THEN "PASS" ELSE "WARN", tf, << >>, n)

\* the summary line
SummaryLine(verdict) ==
    Line("summary",
         IF verdict THEN "ALL CROSS-REFERENCE CHECKS PASSED"
         ELSE "SOME CROSS-REFERENCE CHECKS FAILED",
         << >>, << >>, 0)

(***************************************************************************)
(* The loops over the references of one site.                              *)
(***************************************************************************)
\* existing_agents, from the listing of the agents directory
Manifest(names) ==
    { Remove(f, DotMd) : f \in { g \in names : EndsWith(g, DotMd) } }

\* the lines of: for ref in sorted(agent_refs)
RootLines(refs, manifest) ==
    LET sorted == SortedSeq(refs)
    IN  [k \in 1..Len(sorted) |-> RefLine(sorted[k] \in manifest, sorted[k])]

\* the lines of: for am in sorted(agent_matches)
StageLines(sf, matches, manifest) ==
    LET sorted == SortedSeq(matches)
    IN  [k \in 1..Len(sorted) |-> StageLine(sorted[k] \in manifest, sf, sorted[k])]

\* AllPassAfter that forgets earlier failures: all_pass = exists
AllPassAfter_m(before, refs, manifest) ==
    \A ref \in refs : ref \in manifest

\* all_pass after such a loop: cleared by any reference that does not exist
AllPassAfter(before, refs, manifest) ==
    IF \E ref \in refs : ref \notin manifest THEN FALSE ELSE before

\* StageFilesOf without the stage index: f.startswith('stage-0')
StageFilesOf_m(listing, n) ==
    FilterSeq(listing, { f \in Range(listing) :
                           StartsWith(f, << "s", "t", "a", "g", "e", "-", "0" >>) })

\* [f for f in listing if f.startswith(f'stage-0{i}')]
StageFilesOf(listing, n) ==
    FilterSeq(listing, { f \in Range(listing) : StartsWith(f, StagePrefix(n)) })

(***************************************************************************)
(* Initial states: any file system within the bounds, the script at its    *)
(* first statement.                                                        *)
(***************************************************************************)
\* the file systems of at most maxFiles files and maxTokens tokens of text
FileSystems(maxFiles, maxTokens) ==
    \E an \in SUBSET AgentFileNames, cn \in SUBSET CmdFileNames,
       tn \in SUBSET TmplFileNames :
       /\ Cardinality(an) + Cardinality(cn) + Cardinality(tn) <= maxFiles
       /\ \E rt \in TokSeqs(AgentTokens, maxTokens) :
            \E ca \in Assignments(cn, AgentTokens, maxTokens - Len(rt)) :
              \E ta \in Assignments(tn, TmplTokens,
                                    maxTokens - Len(rt) - TotalTokens(ca)) :
                 /\ rootDoc = Flatten(rt)
                 /\ agentsDir = an
                 /\ cmdsDir = [f \in cn |-> Flatten(ca[f])]
                 /\ tmplDir = [f \in tn |-> Flatten(ta[f])]

\* the script at its first statement
Start ==
    /\ pc = "load_root"
    /\ claude_md = << >>
    /\ existing_agents = {}
    /\ agent_refs = {}
    /\ all_pass = TRUE
    /\ i = FirstStage
    /\ stage_files = << >>
    /\ tmpl_files = << >>
    /\ out = << >>
    /\ scans = << >>
    /\ error = ""

Init == FileSystems(MaxFiles, MaxTokens) /\ Start

\* the initial states of the termination check
LiveInit == FileSystems(LiveMaxFiles, LiveMaxTokens) /\ Start

(***************************************************************************)
(* The script, one action per I/O call or print block.                     *)
(***************************************************************************)
\* a raise: the exception is not caught, the script ends with what it printed
Raise(what) ==
    /\ pc' = "failed"
    /\ error' = what
    /\ UNCHANGED << fs, claude_md, existing_agents, agent_refs, all_pass, i,
                    stage_files, tmpl_files, out, scans >>

\* lines 6-7: read CLAUDE.md
LoadRoot ==
    /\ pc = "load_root"
    /\ claude_md' = rootDoc
    /\ pc' = "load_agents"
    /\ UNCHANGED << fs, existing_agents, agent_refs, all_pass, i, stage_files,
                    tmpl_files, out, scans, error >>

\* line 6: open raises
FailLoadRoot ==
    /\ pc = "load_root"
    /\ Raise("root document")

\* lines 10-11: list the agents directory, build existing_agents
LoadAgents ==
    /\ pc = "load_agents"
    /\ \E listing \in Listings(agentsDir) :
          existing_agents' = Manifest(Range(listing))
    /\ pc' = "scan_root"
    /\ UNCHANGED << fs, claude_md, agent_refs, all_pass, i, stage_files,
                    tmpl_files, out, scans, error >>

\* line 11: os.listdir raises
FailLoadAgents ==
    /\ pc = "load_agents"
    /\ Raise("agents directory")

\* lines 14-23: extract the references of CLAUDE.md, print the first section
ScanRoot ==
    /\ pc = "scan_root"
    /\ \E refs \in { AgentRefs(claude_md) } :
          /\ agent_refs' = refs
          /\ out' = out \o << HeaderLine("root") >>
                        \o RootLines(refs, existing_agents)
          /\ all_pass' = AllPassAfter(TRUE, refs, existing_agents)
    /\ pc' = "stage_header"
    /\ UNCHANGED << fs, claude_md, existing_agents, i, stage_files, tmpl_files,
                    scans, error >>

\* lines 26-29: print the second section's header, enter the loop over stages
StageHeader ==
    /\ pc = "stage_header"
    /\ out' = out \o << BlankLine, HeaderLine("stage") >>
    /\ i' = FirstStage
    /\ pc' = "stage_list"
    /\ UNCHANGED << fs, claude_md, existing_agents, agent_refs, all_pass,
                    stage_files, tmpl_files, scans, error >>

\* line 30: list the commands directory, keep the files of stage i
StageList ==
    /\ pc = "stage_list"
    /\ \E listing \in Listings(DOMAIN cmdsDir) :
          stage_files' = StageFilesOf(listing, i)
    /\ pc' = "stage_file"
    /\ UNCHANGED << fs, claude_md, existing_agents, agent_refs, all_pass, i,
                    tmpl_files, out, scans, error >>

\* line 30: os.listdir raises
FailStageList ==
    /\ pc = "stage_list"
    /\ Raise("commands directory")

\* StageFile that ends the run at the first unresolved reference
StageFile_m ==
    /\ pc = "stage_file"
    /\ stage_files # << >>
    /\ LET sf == Head(stage_files)
           content == cmdsDir[sf]
       IN  \E agent_matches \in { AgentRefs(content) } :
              /\ out' = out \o StageLines(sf, agent_matches, existing_agents)
              /\ all_pass' = AllPassAfter(all_pass, agent_matches, existing_agents)
              /\ scans' = Append(scans, << i, sf >>)
              /\ pc' = IF \E am \in agent_matches : am \notin existing_agents
                       THEN "done" ELSE pc
    /\ stage_files' = Tail(stage_files)
    /\ UNCHANGED << fs, claude_md, existing_agents, agent_refs, i,
                    tmpl_files, error >>

\* lines 31-39: read the next stage file, print a line per reference
StageFile ==
    /\ pc = "stage_file"
    /\ stage_files # << >>
    /\ LET sf == Head(stage_files)
           content == cmdsDir[sf]
       IN  \E agent_matches \in { AgentRefs(content) } :
              /\ out' = out \o StageLines(sf, agent_matches, existing_agents)
              /\ all_pass' = AllPassAfter(all_pass, agent_matches, existing_agents)
              /\ scans' = Append(scans, << i, sf >>)
    /\ stage_files' = Tail(stage_files)
    /\ UNCHANGED << fs, pc, claude_md, existing_agents, agent_refs, i,
                    tmpl_files, error >>

\* line 32: open raises
FailStageFile ==
    /\ pc = "stage_file"
    /\ stage_files # << >>
    /\ Raise("stage file")

\* line 29: the inner loop is over, next stage or leave the loop
StageNext ==
    /\ pc = "stage_file"
    /\ stage_files = << >>
    /\ IF i < LastStage
       THEN i' = i + 1 /\ pc' = "stage_list"
       ELSE i' = i /\ pc' = "tmpl_header"
    /\ UNCHANGED << fs, claude_md, existing_agents, agent_refs, all_pass,
                    stage_files, tmpl_files, out, scans, error >>

\* lines 42-43: print the third section's header
TmplHeader ==
    /\ pc = "tmpl_header"
    /\ out' = out \o << BlankLine, HeaderLine("tmpl") >>
    /\ pc' = "tmpl_list"
    /\ UNCHANGED << fs, claude_md, existing_agents, agent_refs, all_pass, i,
                    stage_files, tmpl_files, scans, error >>

\* line 45: list the template directory, sorted
TmplList ==
    /\ pc = "tmpl_list"
    /\ \E listing \in Listings(DOMAIN tmplDir) :
          tmpl_files' = SortedSeq(Range(listing))
    /\ pc' = "tmpl_file"
    /\ UNCHANGED << fs, claude_md, existing_agents, agent_refs, all_pass, i,
                    stage_files, out, scans, error >>

\* line 45: os.listdir raises
FailTmplList ==
    /\ pc = "tmpl_list"
    /\ Raise("template directory")

\* TmplFile that folds has_vars into the verdict
TmplFile_m ==
    /\ pc = "tmpl_file"
    /\ tmpl_files # << >>
    /\ LET tf == Head(tmpl_files)
       IN  IF EndsWith(tf, DotForge)
           THEN LET content == tmplDir[tf]
                    vars_found == VarsFound(content, 1)
                IN  /\ out' = Append(out, TmplLine(tf, Len(vars_found)))
                    /\ all_pass' = (all_pass /\ Len(vars_found) > 0)
           ELSE out' = out /\ all_pass' = all_pass
    /\ tmpl_files' = Tail(tmpl_files)
    /\ UNCHANGED << fs, pc, claude_md, existing_agents, agent_refs, i,
                    stage_files, scans, error >>

\* lines 45-51: the next template file; a .forge file is read and reported
TmplFile ==
    /\ pc = "tmpl_file"
    /\ tmpl_files # << >>
    /\ LET tf == Head(tmpl_files)
       IN  IF EndsWith(tf, DotForge)
           THEN LET content == tmplDir[tf]
                    vars_found == VarsFound(content, 1)
                IN  out' = Append(out, TmplLine(tf, Len(vars_found)))
           ELSE out' = out
    /\ tmpl_files' = Tail(tmpl_files)
    /\ UNCHANGED << fs, pc, claude_md, existing_agents, agent_refs, all_pass, i,
                    stage_files, scans, error >>

\* line 47: open raises
FailTmplFile ==
    /\ pc = "tmpl_file"
    /\ tmpl_files # << >>
    /\ EndsWith(Head(tmpl_files), DotForge)
    /\ Raise("template file")

\* lines 53-57: print the summary
Summary ==
    /\ pc = "tmpl_file"
    /\ tmpl_files = << >>
    /\ out' = out \o << BlankLine, SummaryLine(all_pass) >>
    /\ pc' = "done"
    /\ UNCHANGED << fs, claude_md, existing_agents, agent_refs, all_pass, i,
                    stage_files, tmpl_files, scans, error >>

Next ==
    \/ FailLoadRoot \/ LoadRoot
    \/ FailLoadAgents \/ LoadAgents
    \/ ScanRoot
    \/ StageHeader
    \/ FailStageList \/ StageList
    \/ FailStageFile \/ StageFile
    \/ StageNext
    \/ TmplHeader
    \/ FailTmplList \/ TmplList
    \/ FailTmplFile \/ TmplFile
    \/ Summary

Spec == Init /\ [][Next]_vars

\* the script is sequential: a step that can be taken is taken
FairSpec == LiveInit /\ [][Next]_vars /\ WF_vars(Next)

(***************************************************************************)
(* The whole report as a function of the inputs and of the order in which  *)
(* the commands directory is listed.                                       *)
(***************************************************************************)
RECURSIVE StageSection(_, _)
\* the lines of stages n..LastStage
StageSection(listing, n) ==
    IF n > LastStage THEN << >>
    ELSE LET files == StageFilesOf(listing, n)
             Of(k) == StageLines(files[k], AgentRefs(cmdsDir[files[k]]),
                                 Manifest(agentsDir))
             Cat[k \in 0..Len(files)] ==
                 IF k = 0 THEN << >> ELSE Cat[k - 1] \o Of(k)
         IN  Cat[Len(files)] \o StageSection(listing, n + 1)

\* the lines of the template section after its header
TmplSection ==
    LET files == SortedSeq(DOMAIN tmplDir)
        Cat[k \in 0..Len(files)] ==
            IF k = 0 THEN << >>
            ELSE IF EndsWith(files[k], DotForge)
                 THEN Append(Cat[k - 1],
                             TmplLine(files[k], Len(VarsFound(tmplDir[files[k]], 1))))
                 ELSE Cat[k - 1]
    IN  Cat[Len(files)]

\* what a run prints when every input can be read
Report(listing) ==
    LET manifest == Manifest(agentsDir)
        verdict ==
            /\ \A r \in AgentRefs(rootDoc) : r \in manifest
            /\ \A f \in DOMAIN cmdsDir :
                 (\E n \in FirstStage..LastStage : StartsWith(f, StagePrefix(n)))
                     => \A r \in AgentRefs(cmdsDir[f]) : r \in manifest
    IN  << HeaderLine("root") >> \o RootLines(AgentRefs(rootDoc), manifest)
          \o << BlankLine, HeaderLine("stage") >>
          \o StageSection(listing, FirstStage)
          \o << BlankLine, HeaderLine("tmpl") >> \o TmplSection
          \o << BlankLine, SummaryLine(verdict) >>

(***************************************************************************)
(* Vocabulary of the properties.                                           *)
(***************************************************************************)
\* the printed lines of one kind, in print order
LinesOfKind(kind) == SelectSeq(out, LAMBDA l : l.kind = kind)

\* the printed stage lines of one command file, in print order
StageLinesOfFile(f) == SelectSeq(out, LAMBDA l : l.kind = "stage" /\ l.file = f)

\* the printed template lines of one template file
TmplLinesOfFile(f) == SelectSeq(out, LAMBDA l : l.kind = "tmpl" /\ l.file = f)

\* the command files opened so far
ScannedFiles == { scans[k][2] : k \in 1..Len(scans) }

\* the first section has been printed
RootScanned == \E k \in 1..Len(out) : out[k] = HeaderLine("root")

\* some reference of the root document or of a scanned command file is not in
\* the manifest
SomeUnresolved ==
    \/ \E r \in AgentRefs(rootDoc) : r \notin existing_agents
    \/ \E f \in ScannedFiles : \E r \in AgentRefs(cmdsDir[f]) : r \notin existing_agents

(***************************************************************************)
(* C1.  When the summary line has been printed, the verdict is false (the  *)
(* summary is SOME CROSS-REFERENCE CHECKS FAILED) if and only if some      *)
(* reference extracted from the root document or from a scanned stage      *)
(* command file is not in the manifest; otherwise it is true and the       *)
(* summary is ALL CROSS-REFERENCE CHECKS PASSED.                           *)
(***************************************************************************)
C1_VerdictIffUnresolved ==
    pc = "done" =>
        /\ all_pass = ~ SomeUnresolved
        /\ out[Len(out)] = SummaryLine(~ SomeUnresolved)

\* a finished run whose root document resolves and whose verdict is false
\* because of a stage command file
C1_Witness ==
    /\ pc = "done"
    /\ agent_refs # {}
    /\ \A r \in agent_refs : r \in existing_agents
    /\ ~ all_pass
    /\ out[Len(out)].tag = "SOME CROSS-REFERENCE CHECKS FAILED"

(***************************************************************************)
(* C2.  No step of the template phase changes the verdict, and the summary *)
(* printed at its end carries the verdict the stage phase left.            *)
(***************************************************************************)
C2_TemplateStep ==
    pc \in { "tmpl_header", "tmpl_list", "tmpl_file" } =>
        /\ all_pass' = all_pass
        /\ pc' = "done" => out'[Len(out')] = SummaryLine(all_pass)

C2_TemplatePhaseKeepsVerdict == [][C2_TemplateStep]_vars

\* a finished run with a true verdict that reported a template file without
\* placeholders
C2_Witness ==
    /\ pc = "done"
    /\ all_pass
    /\ agent_refs # {}
    /\ \E k \in 1..Len(out) : out[k].kind = "tmpl" /\ out[k].tag = "WARN"

(***************************************************************************)
(* C3.  When the root document, the agents directory or the commands       *)
(* directory cannot be read, no report line has been printed at the moment *)
(* the failure is raised.                                                  *)
(***************************************************************************)
C3_NoPartialReport ==
    ( /\ pc = "failed"
      /\ error \in { "root document", "agents directory", "commands directory" } )
        => out = << >>

(***************************************************************************)
(* C4.  The phases follow each other in the fixed order root document,     *)
(* stages 1 to 7 ascending, templates, summary, whatever the checks found; *)
(* and a run in which no input fails to be read terminates having printed  *)
(* the three sections in order and exactly one summary line, the last.     *)
(***************************************************************************)
PhaseOf(p) ==
    CASE p \in { "load_root", "load_agents", "scan_root" } -> 1
      [] p \in { "stage_header", "stage_list", "stage_file" } -> 2
      [] p \in { "tmpl_header", "tmpl_list", "tmpl_file" } -> 3
      [] p = "done" -> 4
      [] OTHER -> 0

C4_PhaseStep ==
    /\ pc' # "failed" => PhaseOf(pc') \in { PhaseOf(pc), PhaseOf(pc) + 1 }
    /\ (PhaseOf(pc) = 1 /\ PhaseOf(pc') = 2) => RootScanned'
    /\ (pc = "stage_header" /\ pc' = "stage_list") => i' = FirstStage
    /\ (pc = "stage_file" /\ pc' = "stage_list") => i' = i + 1
    /\ (PhaseOf(pc) = 2 /\ PhaseOf(pc') = 2 /\ pc # "stage_header"
          /\ ~ (pc = "stage_file" /\ pc' = "stage_list")) => i' = i
    /\ (PhaseOf(pc) = 2 /\ PhaseOf(pc') = 3) => i = LastStage
    /\ \A k \in 1..Len(scans') : \A j \in 1..(k - 1) : scans'[j][1] <= scans'[k][1]

C4_FinalReport ==
    /\ LinesOfKind("header") =
          << HeaderLine("root"), HeaderLine("stage"), HeaderLine("tmpl") >>
    /\ Len(LinesOfKind("summary")) = 1
    /\ out[Len(out)].kind = "summary"

C4_SequentialPipeline ==
    /\ [][C4_PhaseStep]_vars
    /\ [](pc = "done" => C4_FinalReport)
    /\ ([](pc # "failed") => <>(pc = "done"))

\* a finished run whose first section reported a FAIL and whose stage phase
\* still scanned a file
C4_Witness ==
    /\ pc = "done"
    /\ \E k \in 1..Len(out) : out[k].kind = "ref" /\ out[k].tag = "FAIL"
    /\ scans # << >>
    /\ C4_FinalReport

(***************************************************************************)
(* C5.  For the root document and for each scanned stage command file, the *)
(* printed results are one per distinct extracted reference, in strictly   *)
(* ascending lexicographic order, each PASS exactly when the reference is  *)
(* in the manifest and FAIL otherwise.                                     *)
(***************************************************************************)
SiteResultsRight(lines, refs) ==
    /\ \A k \in 1..Len(lines) : \A j \in 1..(k - 1) :
          LexLess(lines[j].value, lines[k].value)
    /\ { lines[k].value : k \in 1..Len(lines) } = refs
    /\ \A k \in 1..Len(lines) :
          lines[k].tag = IF lines[k].value \in existing_agents THEN "PASS" ELSE "FAIL"

C5_SortedDistinctResults ==
    /\ RootScanned => SiteResultsRight(LinesOfKind("ref"), AgentRefs(rootDoc))
    /\ \A f \in ScannedFiles :
          SiteResultsRight(StageLinesOfFile(f), AgentRefs(cmdsDir[f]))

\* a site with two references that occur in the text in descending order, one
\* resolved and one not
C5_Witness ==
    /\ RootScanned
    /\ Cardinality(agent_refs) = 2
    /\ LET found == AgentFindAll(rootDoc, 1) IN LexLess(found[2], found[1])
    /\ \E k \in 1..Len(out) : out[k].kind = "ref" /\ out[k].tag = "PASS"
    /\ \E k \in 1..Len(out) : out[k].kind = "ref" /\ out[k].tag = "FAIL"

(***************************************************************************)
(* C6.  Every extracted reference occurs in the scanned text with a word   *)
(* boundary on each side: the character before it and the character after  *)
(* its final -agent are each absent or a non-word character.               *)
(***************************************************************************)
BoundedOccurrence(text, ref) ==
    \E p \in 1..Len(text) :
        /\ OccursAt(text, p, ref)
        /\ p = 1 \/ ~ IsWord(text[p - 1])
        /\ p + Len(ref) - 1 = Len(text) \/ ~ IsWord(text[p + Len(ref)])

C6_WordBoundaries ==
    /\ \A r \in agent_refs : BoundedOccurrence(rootDoc, r)
    /\ \A k \in 1..Len(out) :
          out[k].kind = "stage" => BoundedOccurrence(cmdsDir[out[k].file], out[k].value)

(***************************************************************************)
(* C7.  The manifest is the set of the names of the agents directory that  *)
(* end in .md, each with that trailing .md, and nothing else, removed.     *)
(***************************************************************************)
StripSuffix(name, suffix) == SubSeq(name, 1, Len(name) - Len(suffix))

C7_ManifestStripsSuffix ==
    pc \notin { "load_root", "load_agents", "failed" } =>
        existing_agents =
            { StripSuffix(f, DotMd) : f \in { g \in agentsDir : EndsWith(g, DotMd) } }

(***************************************************************************)
(* C8.  A finished run has printed what any run over the same files        *)
(* prints, whatever order the directory listings return the names in.      *)
(***************************************************************************)
C8_StableReport ==
    pc = "done" => \A listing \in Listings(DOMAIN cmdsDir) : out = Report(listing)

(***************************************************************************)
(* C9.  A template file whose name ends in .forge gets exactly one record, *)
(* carrying the number of {{UPPER_SNAKE_CASE}} placeholders of its         *)
(* content, PASS when that number is at least 1 and WARN when it is 0; any *)
(* other file of the template directory gets none.                         *)
(***************************************************************************)
\* the positions where a placeholder starts
PlaceholderStarts(text) ==
    { p \in 1..Len(text) :
        \E e \in (p + 2)..Len(text) :
            /\ text[p] = "{" /\ text[p + 1] = "{"
            /\ \A j \in (p + 2)..e : text[j] \in { "A", "B", "_" }
            /\ e + 2 <= Len(text)
            /\ text[e + 1] = "}" /\ text[e + 2] = "}" }

C9_TemplateRecords ==
    /\ \A k \in 1..Len(out) :
          out[k].kind = "tmpl" =>
              /\ out[k].file \in DOMAIN tmplDir
              /\ out[k].count = Cardinality(PlaceholderStarts(tmplDir[out[k].file]))
              /\ out[k].tag = IF out[k].count >= 1 THEN "PASS" ELSE "WARN"
    /\ \A f \in DOMAIN tmplDir :
          /\ Len(TmplLinesOfFile(f)) <= 1
          /\ ~ EndsWith(f, DotForge) => Len(TmplLinesOfFile(f)) = 0
          /\ (pc = "done" /\ EndsWith(f, DotForge)) => Len(TmplLinesOfFile(f)) = 1

\* a finished run over a template with placeholders and a template without
C9_Witness ==
    /\ pc = "done"
    /\ \E k \in 1..Len(out) : out[k].kind = "tmpl" /\ out[k].tag = "PASS"
    /\ \E k \in 1..Len(out) : out[k].kind = "tmpl" /\ out[k].tag = "WARN"

(***************************************************************************)
(* C10.  Over the stage phase a command file whose name starts with        *)
(* stage-0i, i in 1..7, is scanned exactly once, under index i; a file     *)
(* with none of the seven prefixes is never scanned and has no report      *)
(* line; no file is scanned under an index its name does not carry.        *)
(***************************************************************************)
StageDigits == << "1", "2", "3", "4", "5", "6", "7" >>

NameCarriesStage(f, n) ==
    /\ Len(f) >= 8
    /\ SubSeq(f, 1, 7) = << "s", "t", "a", "g", "e", "-", "0" >>
    /\ f[8] = StageDigits[n]

TimesScanned(f, n) == Cardinality({ k \in 1..Len(scans) : scans[k] = << n, f >> })

C10_EachStageFileOnce ==
    /\ \A k \in 1..Len(scans) :
          /\ scans[k][1] \in 1..7
          /\ scans[k][2] \in DOMAIN cmdsDir
          /\ NameCarriesStage(scans[k][2], scans[k][1])
    /\ \A f \in DOMAIN cmdsDir : \A n \in 1..7 : TimesScanned(f, n) <= 1
    /\ \A k \in 1..Len(out) : out[k].kind = "stage" => out[k].file \in ScannedFiles
    /\ PhaseOf(pc) \in { 3, 4 } =>
          \A f \in DOMAIN cmdsDir : \A n \in 1..7 :
              TimesScanned(f, n) = IF NameCarriesStage(f, n) THEN 1 ELSE 0

\* a finished run over a file of stage 7 and a file of no stage
C10_Witness ==
    /\ pc = "done"
    /\ \E k \in 1..Len(scans) : scans[k][1] = 7
    /\ \E f \in DOMAIN cmdsDir : \A n \in 1..7 : ~ NameCarriesStage(f, n)

=============================================================================
